---- MODULE Spec2Model ----
(***************************************************************************)
(* A state-machine model of the nest-ecommerce backend: the order          *)
(* transaction (orders.service.ts), the credential store, login and the    *)
(* two guards (users.controller.ts, auth.guard.ts, roles.guard.ts), the    *)
(* catalog (products.service.ts, products.controller.ts) and the asset     *)
(* uploader (upload.service.ts).                                           *)
(*                                                                         *)
(* Requests are served concurrently by the host process: each member of    *)
(* Procs is one request in flight, and every await on the datastore or on  *)
(* the storage provider is a point where another request may run.          *)
(***************************************************************************)
EXTENDS Integers, Sequences, FiniteSets, TLC

VARIABLES
    orders,         \* committed rows of table "orders"
    orderItems,     \* committed rows of table "order_item"
    nextOrderId,    \* next fresh primary key of an order
    users,          \* rows of table "users"
    nextUserId,     \* next fresh primary key of a user
    tokens,         \* payloads the Token Issuer has signed so far
    products,       \* rows of table "products"
    nextProductId,  \* next fresh primary key of a product
    pc,             \* pc[p]: where request p stands
    req,            \* req[p]: the request's arguments and locals
    res             \* res[p]: what the request returned or threw

orderVars == <<orders, orderItems, nextOrderId>>
userVars == <<users, nextUserId, tokens>>
productVars == <<products, nextProductId>>
vars == <<orderVars, userVars, productVars, pc, req, res>>

(***************************************************************************)
(* Bounds of the model.                                                    *)
(***************************************************************************)
Procs == {1, 2}
MaxItems == 2          \* line items submitted with one order
MaxOrders == 1         \* order headers inserted in one run
Digits == 3            \* decimal places an amount of the model carries
MaxUsers == 2          \* users inserted in one run
MaxProducts == 1       \* products inserted in one run

NoReq == [op |-> "none"]
NoRes == [kind |-> "none"]

(***************************************************************************)
(* Amounts.  An amount is an integer count of 10^-Digits currency units,   *)
(* so 5 is 0.005 and 10 is 0.01 when Digits = 3.                           *)
(***************************************************************************)
Scale == 2

RECURSIVE Pow10(_)
Pow10(n) == IF n = 0 THEN 1 ELSE 10 * Pow10(n - 1)

\* Order.totalAmount is decimal(10, 2): the datastore rounds a stored value
\* to Scale decimal places (half away from zero; amounts here are >= 0).
ToTotalAmountColumn(x) ==
    LET unit == Pow10(Digits - Scale)
    IN  ((2 * x + unit) \div (2 * unit)) * unit

\* OrderItemDto: productId a non-empty string, quantity >= 1, price > 0.
\* The id submitted is the key the catalog gives its first product, whether
\* or not that product is stored.
ProductIds == {1}
Quantities == {1, 2}
Prices == {5}

OrderItemDto == [productId : ProductIds, quantity : Quantities, price : Prices]

SeqsUpTo(S, n) == UNION {[1..k -> S] : k \in 0..n}

\* CreateOrderDto (userId, the address and the payment method are fixed:
\* no operation modelled here branches on them).
CreateOrderDto ==
    [userId : {7}, shippingAddress : {"123 Main Street"},
     paymentMethod : {"credit_card"}, orderItems : SeqsUpTo(OrderItemDto, MaxItems)]

\* A total that forgets the quantity of each line.
RECURSIVE SumPrices(_)
SumPrices(items) ==
    IF items = <<>> THEN 0 ELSE SumPrices(Tail(items)) + Head(items).price

\* createOrderDto.orderItems.reduce((total, item) => total + item.price * item.quantity, 0)
RECURSIVE SumItems(_)
SumItems(items) ==
    IF items = <<>> THEN 0
    ELSE SumItems(Tail(items)) + Head(items).price * Head(items).quantity

(***************************************************************************)
(* Results and exceptions.  A request ends with Ok(value) or with          *)
(* Throw(exception); the framework's exception layer answers an            *)
(* HttpException with its own status and anything else with 500.           *)
(***************************************************************************)
Ok(v) == [kind |-> "ok", value |-> v]
Throw(e) == [kind |-> "error", error |-> e]

NotFoundException(m) == [name |-> "NotFoundException", message |-> m]
QueryFailedError(m) == [name |-> "QueryFailedError", message |-> m]
\* new InternalServerErrorException(error): the caught error is the response
InternalServerErrorException(e) == [name |-> "InternalServerErrorException", cause |-> e]

Failed(p) == pc[p] = "done" /\ res[p].kind = "error"
Succeeded(p) == pc[p] = "done" /\ res[p].kind = "ok"

(***************************************************************************)
(* OrdersService                                                           *)
(***************************************************************************)
NoRow == [id |-> 0]

\* The faults a statement of the unit of work can end with.
DbFaults == {QueryFailedError("statement failed")}

\* this.orderRepository.create({...orderData, totalAmount}) once saved: the
\* row the datastore holds (status defaults to 'pending', totalAmount is
\* kept to the column's scale).
OrderRow(id, dto, totalAmount) ==
    [id |-> id, userId |-> dto.userId,
     totalAmount |-> ToTotalAmountColumn(totalAmount),
     status |-> "pending", shippingAddress |-> dto.shippingAddress,
     paymentMethod |-> dto.paymentMethod]

\* this.orderItemRepository.create({...item, product: {id: item.productId},
\* order: createdOrder}) once saved.
OrderItemRow(order, k, item) ==
    [id |-> <<order.id, k>>, quantity |-> item.quantity, price |-> item.price,
     product |-> item.productId, order |-> order.id]

\* The header saved through the repository instead of the transaction's
\* manager: the insert commits at once.
AutocommitSaveOrder(p, row) ==
    /\ req' = [req EXCEPT ![p].txOrder = row]
    /\ orders' = orders \cup {row}
    /\ UNCHANGED orderItems

\* A line item saved through the repository instead of the transaction's
\* manager.
AutocommitSaveItem(p, row) ==
    /\ req' = [req EXCEPT ![p].txItems = @ \cup {row}, ![p].k = @ + 1]
    /\ orderItems' = orderItems \cup {row}
    /\ UNCHANGED orders

\* transactionalEntityManager.save(order): the insert belongs to the open
\* transaction and is invisible outside it until the commit.
TxSaveOrder(p, row) ==
    /\ req' = [req EXCEPT ![p].txOrder = row]
    /\ UNCHANGED <<orders, orderItems>>

\* transactionalEntityManager.save(orderItem), one insert per line item.
TxSaveItem(p, row) ==
    /\ req' = [req EXCEPT ![p].txItems = @ \cup {row}, ![p].k = @ + 1]
    /\ UNCHANGED <<orders, orderItems>>

\* A create() that rolls back and lets the error through as it is.
TxRethrow(p, e) ==
    /\ pc' = [pc EXCEPT ![p] = "done"]
    /\ res' = [res EXCEPT ![p] = Throw(e)]
    /\ UNCHANGED <<orders, orderItems, req>>

\* The transaction callback threw: the transaction is rolled back and the
\* catch of create() rewraps the error.
TxRollback(p, e) ==
    /\ pc' = [pc EXCEPT ![p] = "done"]
    /\ res' = [res EXCEPT ![p] = Throw(InternalServerErrorException(e))]
    /\ UNCHANGED <<orders, orderItems, req>>

\* create(): the total is computed, the dto is split and the transaction opens.
CreateOrder(p) ==
    /\ pc[p] = "idle"
    /\ \E dto \in CreateOrderDto :
          req' = [req EXCEPT ![p] =
                    [op |-> "create", dto |-> dto,
                     totalAmount |-> SumItems(dto.orderItems),
                     txOrder |-> NoRow, txItems |-> {}, k |-> 1]]
    /\ pc' = [pc EXCEPT ![p] = "tx_order"]
    /\ UNCHANGED <<orders, orderItems, nextOrderId, res>>

\* a. the header insert
CreateSaveOrder(p) ==
    /\ pc[p] = "tx_order"
    /\ nextOrderId <= MaxOrders
    /\ nextOrderId' = nextOrderId + 1
    /\ \/ /\ TxSaveOrder(p, OrderRow(nextOrderId, req[p].dto, req[p].totalAmount))
          /\ pc' = [pc EXCEPT ![p] = "tx_items"]
          /\ UNCHANGED res
       \/ \E e \in DbFaults : TxRollback(p, e)

\* An order_item table whose product column references nothing.
NoProductKey(productId) == FALSE

\* OrderItem.product is @ManyToOne(() => Product): the product column of a
\* line item is a foreign key to products, and an insert that names no
\* stored product is refused by the datastore.
ProductKeyViolation(productId) == \A r \in products : r.id # productId

ForeignKeyError == QueryFailedError("violates foreign key constraint")

\* b. one line-item insert per submitted item
CreateSaveItem(p) ==
    /\ pc[p] = "tx_items"
    /\ req[p].k <= Len(req[p].dto.orderItems)
    /\ IF ProductKeyViolation(req[p].dto.orderItems[req[p].k].productId)
       THEN TxRollback(p, ForeignKeyError)
       ELSE \/ /\ TxSaveItem(p, OrderItemRow(req[p].txOrder, req[p].k,
                                              req[p].dto.orderItems[req[p].k]))
               /\ UNCHANGED <<pc, res>>
            \/ \E e \in DbFaults : TxRollback(p, e)
    /\ UNCHANGED nextOrderId

\* What a statement of transaction p reads: the committed rows and its own.
TxOrders(p) == orders \cup {req[p].txOrder}
TxItems(p) == orderItems \cup req[p].txItems

\* findOne(Order, {where: {id}, relations: ['orderItems']})
WithItems(o, items) ==
    [id |-> o.id, userId |-> o.userId, totalAmount |-> o.totalAmount,
     status |-> o.status, shippingAddress |-> o.shippingAddress,
     paymentMethod |-> o.paymentMethod,
     orderItems |-> {i \in items : i.order = o.id}]

FullOrder(p) ==
    LET found == {o \in TxOrders(p) : o.id = req[p].txOrder.id}
    IN  IF found = {} THEN NoRow
        ELSE WithItems(CHOOSE o \in found : TRUE, TxItems(p))

\* The callback returned: the transaction commits, and its rows become
\* visible together.
TxCommit(p) ==
    /\ orders' = orders \cup {req[p].txOrder}
    /\ orderItems' = orderItems \cup req[p].txItems
    /\ UNCHANGED req

\* c. the re-read of the order with its line items, then the commit; the
\* re-read or the commit may fail.
CreateFindFull(p) ==
    /\ pc[p] = "tx_items"
    /\ req[p].k > Len(req[p].dto.orderItems)
    /\ \/ /\ TxCommit(p)
          /\ pc' = [pc EXCEPT ![p] = "done"]
          /\ res' = [res EXCEPT ![p] = Ok(FullOrder(p))]
       \/ \E e \in DbFaults : TxRollback(p, e)
    /\ UNCHANGED nextOrderId

OrderIds == 1..MaxOrders

\* A catch that rewraps whatever was thrown.
WrapEvery(e) == InternalServerErrorException(e)

\* catch (error) of findOne, update, updateStatus and remove: a
\* NotFoundException is thrown on as it is, anything else is rewrapped.
OrdersCatch(e) ==
    IF e.name = "NotFoundException" THEN e ELSE InternalServerErrorException(e)

OrderNotFound == NotFoundException("Order not found")

\* orderRepository.findOneBy({id})
OrderFindOneBy(id) == {o \in orders : o.id = id}

\* findOne(id): findOneBy({id}) on the repository, outside any transaction.
FindOneOrder(p) ==
    /\ pc[p] = "idle"
    /\ \E id \in OrderIds :
          LET found == OrderFindOneBy(id)
          IN  /\ req' = [req EXCEPT ![p] = [op |-> "findOne", id |-> id]]
              /\ res' = [res EXCEPT ![p] =
                    IF found = {} THEN Throw(OrdersCatch(OrderNotFound))
                    ELSE Ok(CHOOSE o \in found : TRUE)]
    /\ pc' = [pc EXCEPT ![p] = "done"]
    /\ UNCHANGED <<orders, orderItems, nextOrderId>>

\* findAll(filters): status and userId filters, page 1 of 10 rows by default.
NoFilter == "any"
FindAllOrders(p) ==
    /\ pc[p] = "idle"
    /\ \E status \in {NoFilter, "pending"}, userId \in {0, 7} :
          /\ req' = [req EXCEPT ![p] =
                       [op |-> "findAll", status |-> status, userId |-> userId]]
          /\ res' = [res EXCEPT ![p] =
                Ok({o \in orders :
                      /\ (status # NoFilter => o.status = status)
                      /\ (userId # 0 => o.userId = userId)})]
    /\ pc' = [pc EXCEPT ![p] = "done"]
    /\ UNCHANGED <<orders, orderItems, nextOrderId>>

(***************************************************************************)
(* OrdersService: update, updateStatus and remove.                         *)
(***************************************************************************)
OrderStatus == {"pending", "confirmed", "shipped", "delivered", "cancelled"}

\* UpdateOrderDto: the fields of CreateOrderDto, each of which may be
\* absent.  The updates drawn change the address or submit line items.
UpdateOrderDto ==
    [shippingAddress : {"456 Other Street"}]
        \cup [orderItems : {<<i>> : i \in OrderItemDto}]

\* The columns of table "orders" an entity is saved to.
OrderColumns(o) ==
    [id |-> o.id, userId |-> o.userId,
     totalAmount |-> ToTotalAmountColumn(o.totalAmount),
     status |-> o.status, shippingAddress |-> o.shippingAddress,
     paymentMethod |-> o.paymentMethod]

\* orderRepository.merge(existingOrder, {...updateOrderDto, totalAmount}),
\* the total recomputed when line items are submitted.
MergeOrder(existing, dto) ==
    IF "orderItems" \in DOMAIN dto
    THEN [id |-> existing.id, userId |-> existing.userId,
          totalAmount |-> SumItems(dto.orderItems),
          status |-> existing.status,
          shippingAddress |-> existing.shippingAddress,
          paymentMethod |-> existing.paymentMethod,
          orderItems |-> dto.orderItems]
    ELSE [existing EXCEPT !.shippingAddress = dto.shippingAddress]

\* The lookup that opens update, updateStatus and remove: the request ends
\* with NotFound when no row has the id, and goes on with the row otherwise.
OrderLookup(p, r, next) ==
    LET found == OrderFindOneBy(r.id)
    IN  IF found = {}
        THEN /\ req' = [req EXCEPT ![p] = r]
             /\ pc' = [pc EXCEPT ![p] = "done"]
             /\ res' = [res EXCEPT ![p] = Throw(OrdersCatch(OrderNotFound))]
        ELSE /\ req' = [req EXCEPT ![p] =
                          [r EXCEPT !.existingOrder = CHOOSE o \in found : TRUE]]
             /\ pc' = [pc EXCEPT ![p] = next]
             /\ UNCHANGED res

\* The order column of a line item that belongs to no order (NULL).
NoOrder == 0

\* What orderRepository.save(updatedOrder) does to the line items.  Order's
\* orderItems is @OneToMany without cascade: the entities merged in from the
\* dto have no id and are not inserted, and the stored line items of the
\* order, none of which is among them, have their order column set to NULL.
\* An entity that carries no orderItems leaves the line items alone.
SaveItems(updatedOrder) ==
    IF "orderItems" \in DOMAIN updatedOrder
    THEN {IF i.order = updatedOrder.id THEN [i EXCEPT !.order = NoOrder] ELSE i
            : i \in orderItems}
    ELSE orderItems

\* A save under an optimistic lock: it is refused when the stored row is no
\* longer the one the request read.
VersionedSave(p, updatedOrder) ==
    IF req[p].existingOrder \in orders
    THEN /\ orders' = {o \in orders : o.id # updatedOrder.id}
                          \cup {OrderColumns(updatedOrder)}
         /\ orderItems' = SaveItems(updatedOrder)
         /\ res' = [res EXCEPT ![p] = Ok(updatedOrder)]
    ELSE /\ res' = [res EXCEPT ![p] = Throw(OrdersCatch(
                        [name |-> "OptimisticLockVersionMismatchError",
                         message |-> "the row was changed by another request"]))]
         /\ UNCHANGED <<orders, orderItems>>

\* orderRepository.save(updatedOrder): the row with the entity's id is
\* written (inserted when it is gone); the entity is what save returns.  A
\* save that fails is rewrapped by the catch.
OrderSave(p, updatedOrder) ==
    \/ /\ orders' = {o \in orders : o.id # updatedOrder.id}
                        \cup {OrderColumns(updatedOrder)}
       /\ orderItems' = SaveItems(updatedOrder)
       /\ res' = [res EXCEPT ![p] = Ok(updatedOrder)]
    \/ /\ \E e \in DbFaults : res' = [res EXCEPT ![p] = Throw(OrdersCatch(e))]
       /\ UNCHANGED <<orders, orderItems>>

\* update(id, updateOrderDto): the lookup
UpdateOrder(p) ==
    /\ pc[p] = "idle"
    /\ \E id \in OrderIds, dto \in UpdateOrderDto :
          OrderLookup(p, [op |-> "update", id |-> id, dto |-> dto,
                          existingOrder |-> NoRow], "upd_save")
    /\ UNCHANGED orderVars

\* update(id, updateOrderDto): merge and save
UpdateOrderSave(p) ==
    /\ pc[p] = "upd_save"
    /\ OrderSave(p, MergeOrder(req[p].existingOrder, req[p].dto))
    /\ pc' = [pc EXCEPT ![p] = "done"]
    /\ UNCHANGED <<nextOrderId, req>>

\* updateStatus(id, status): the lookup
UpdateStatus(p) ==
    /\ pc[p] = "idle"
    /\ \E id \in OrderIds, status \in OrderStatus :
          OrderLookup(p, [op |-> "updateStatus", id |-> id, status |-> status,
                          existingOrder |-> NoRow], "status_save")
    /\ UNCHANGED orderVars

\* A merge that lets a status move forward only.
ForwardOnly(existing, status) ==
    LET rank == [t \in OrderStatus |->
                    CASE t = "pending" -> 1 [] t = "confirmed" -> 2
                      [] t = "shipped" -> 3 [] t = "delivered" -> 4
                      [] OTHER -> 5]
    IN  IF rank[status] > rank[existing.status]
        THEN [existing EXCEPT !.status = status] ELSE existing

\* orderRepository.merge(existingOrder, {status})
MergeStatus(existing, status) == [existing EXCEPT !.status = status]

\* updateStatus(id, status): merge and save
UpdateStatusSave(p) ==
    /\ pc[p] = "status_save"
    /\ OrderSave(p, MergeStatus(req[p].existingOrder, req[p].status))
    /\ pc' = [pc EXCEPT ![p] = "done"]
    /\ UNCHANGED <<nextOrderId, req>>

\* remove(id): the lookup
RemoveOrder(p) ==
    /\ pc[p] = "idle"
    /\ \E id \in OrderIds :
          OrderLookup(p, [op |-> "remove", id |-> id, existingOrder |-> NoRow],
                      "remove_row")
    /\ UNCHANGED orderVars

\* remove(id): orderRepository.remove(order) deletes the row with the id.
\* The foreign key of a line item's order column refuses the delete while a
\* line item references the order; the catch rewraps that error.
RemoveOrderRow(p) ==
    /\ pc[p] = "remove_row"
    /\ IF \E i \in orderItems : i.order = req[p].id
       THEN /\ res' = [res EXCEPT ![p] = Throw(OrdersCatch(ForeignKeyError))]
            /\ UNCHANGED orders
       ELSE /\ orders' = {o \in orders : o.id # req[p].id}
            /\ res' = [res EXCEPT ![p] = Ok("cancelled successfully")]
    /\ pc' = [pc EXCEPT ![p] = "done"]
    /\ UNCHANGED <<orderItems, nextOrderId, req>>

(***************************************************************************)
(* UsersService: the credential store, registration and login.             *)
(***************************************************************************)
ConflictException(m) == [name |-> "ConflictException", message |-> m]
UnauthorizedException(m) == [name |-> "UnauthorizedException", message |-> m]
ForbiddenException(m) == [name |-> "ForbiddenException", message |-> m]
JsonWebTokenError(m) == [name |-> "JsonWebTokenError", message |-> m]

\* enum UserRole of users/entities/user.entity
UserRole == {"user", "admin"}
ADMIN == "admin"

Emails == {"a@x.io", "b@x.io"}
Passwords == {"secret1", "secret2"}
Salts == {"s1"}
Absent == "<absent>"
NoUser == [id |-> 0]

\* bcrypt.hash(password, saltRounds): a fresh salt and the digest of salt
\* and password together.
Hash(password, salt) == [salt |-> salt, digest |-> <<salt, password>>]

\* A comparison that hashes the password again without the hash's salt.
UnsaltedCompare(password, hash) == <<"", password>> = hash.digest

\* bcrypt.compare(password, hash): the password is hashed again with the
\* hash's own salt.
Compare(password, hash) == Hash(password, hash.salt).digest = hash.digest

\* CreateUserDto (names, phone and address are not modelled: no operation
\* branches on them).  Users register with the first password.
CreateUserDto == [email : Emails, password : {"secret1"}, role : UserRole]

\* UpdateUserDto = PartialType(CreateUserDto): every field may be absent.
\* The updates drawn change the email or the password.
UpdateUserDto ==
    [email : Emails, password : {Absent}, role : {Absent}]
        \cup [email : {Absent}, password : {"secret2"}, role : {Absent}]

\* userRepository.findOne({where: {email}})
FindByEmail(email) == {u \in users : u.email = email}
\* userRepository.findOne({where: {id}})
FindById(id) == {u \in users : u.id = id}

\* The users table without its unique index on email.
NoUniqueIndex(id, email) == FALSE

\* The unique index on users.email: a write that would give row id an email
\* another row holds is refused by the datastore.
UniqueViolation(id, email) == \E u \in users : u.id # id /\ u.email = email

\* A register that looks nobody up before it saves.
NobodyExisting(email) == {}

\* create(): const existingUser = await findOne({where: {email}})
ExistingUser(email) == FindByEmail(email)

\* A register that answers with the saved entity as it is.
SavedUser(u) == u

\* The password column of the users table is not among the columns a find
\* selects by default; login() asks for it by name.
SelectedColumns(u) == [id |-> u.id, email |-> u.email, role |-> u.role]

\* const { password, ...result } = savedUser
WithoutPassword(u) == [id |-> u.id, email |-> u.email, role |-> u.role]

\* create(), up to the first await that follows the lookup.
CreateUser(p) ==
    /\ pc[p] = "idle"
    /\ \E dto \in CreateUserDto :
          /\ req' = [req EXCEPT ![p] = [op |-> "register", dto |-> dto]]
          /\ IF ExistingUser(dto.email) # {}
             THEN /\ pc' = [pc EXCEPT ![p] = "done"]
                  /\ res' = [res EXCEPT ![p] = Throw(ConflictException(
                                "User with this email already exists"))]
             ELSE /\ pc' = [pc EXCEPT ![p] = "reg_save"]
                  /\ UNCHANGED res
    /\ UNCHANGED userVars

\* create(): the password is hashed and the user saved; a save the unique
\* index refuses throws out of create() as it is.
CreateUserSave(p) ==
    /\ pc[p] = "reg_save"
    /\ nextUserId <= MaxUsers
    /\ \E salt \in Salts :
          LET dto == req[p].dto
              user == [id |-> nextUserId, email |-> dto.email,
                       password |-> Hash(dto.password, salt), role |-> dto.role]
          IN  IF UniqueViolation(user.id, user.email)
              THEN /\ res' = [res EXCEPT ![p] = Throw(QueryFailedError(
                                "duplicate key value violates unique constraint"))]
                   /\ UNCHANGED userVars
              ELSE /\ users' = users \cup {user}
                   /\ nextUserId' = nextUserId + 1
                   /\ res' = [res EXCEPT ![p] = Ok(WithoutPassword(user))]
                   /\ UNCHANGED tokens
    /\ pc' = [pc EXCEPT ![p] = "done"]
    /\ UNCHANGED req

UserIds == 1..MaxUsers

UserNotFound == NotFoundException("User with ID not found")

\* An update that takes every email it is given for a change.
EmailGiven(dto, user) == dto.email # Absent

\* update(): updateUserDto.email && updateUserDto.email !== user.email
EmailChanges(dto, user) == dto.email # Absent /\ dto.email # user.email

\* update(): const user = await this.findOne(id)
UpdateUser(p) ==
    /\ pc[p] = "idle"
    /\ \E id \in UserIds, dto \in UpdateUserDto :
          IF FindById(id) = {}
          THEN /\ req' = [req EXCEPT ![p] =
                            [op |-> "update", id |-> id, dto |-> dto,
                             emailChanges |-> FALSE]]
               /\ pc' = [pc EXCEPT ![p] = "done"]
               /\ res' = [res EXCEPT ![p] = Throw(UserNotFound)]
          ELSE LET user == CHOOSE u \in FindById(id) : TRUE
               IN  /\ req' = [req EXCEPT ![p] =
                                [op |-> "update", id |-> id, dto |-> dto,
                                 emailChanges |-> EmailChanges(dto, user)]]
                   /\ pc' = [pc EXCEPT ![p] =
                                IF EmailChanges(dto, user)
                                THEN "upd_check" ELSE "upd_write"]
                   /\ UNCHANGED res
    /\ UNCHANGED userVars

\* update(): the conflict lookup, made when the email changes
UpdateUserCheck(p) ==
    /\ pc[p] = "upd_check"
    /\ IF FindByEmail(req[p].dto.email) # {}
       THEN /\ pc' = [pc EXCEPT ![p] = "done"]
            /\ res' = [res EXCEPT ![p] = Throw(ConflictException(
                          "User with this email already exists"))]
       ELSE /\ pc' = [pc EXCEPT ![p] = "upd_write"]
            /\ UNCHANGED res
    /\ UNCHANGED <<userVars, req>>

\* An update that writes every field but the password.
KeepsPassword(u, dto, salt) ==
    [id |-> u.id,
     email |-> IF dto.email # Absent THEN dto.email ELSE u.email,
     password |-> u.password,
     role |-> IF dto.role # Absent THEN dto.role ELSE u.role]

\* The fields of dto that are present, written over row u.
Merged(u, dto, salt) ==
    [id |-> u.id,
     email |-> IF dto.email # Absent THEN dto.email ELSE u.email,
     password |-> IF dto.password # Absent THEN Hash(dto.password, salt)
                  ELSE u.password,
     role |-> IF dto.role # Absent THEN dto.role ELSE u.role]

\* update(): the password is hashed when present, then
\* userRepository.update(id, updateUserDto) writes the row with that id, if
\* there still is one.
UpdateUserWrite(p) ==
    /\ pc[p] = "upd_write"
    /\ \E salt \in Salts :
          LET dto == req[p].dto
              rows == FindById(req[p].id)
          IN  IF rows # {} /\ dto.email # Absent
                 /\ UniqueViolation(req[p].id, dto.email)
              THEN /\ pc' = [pc EXCEPT ![p] = "done"]
                   /\ res' = [res EXCEPT ![p] = Throw(QueryFailedError(
                                "duplicate key value violates unique constraint"))]
                   /\ UNCHANGED users
              ELSE /\ users' = (users \ rows) \cup {Merged(u, dto, salt) : u \in rows}
                   /\ pc' = [pc EXCEPT ![p] = "upd_read"]
                   /\ UNCHANGED res
    /\ UNCHANGED <<nextUserId, tokens, req>>

\* update(): return this.findOne(id)
UpdateUserRead(p) ==
    /\ pc[p] = "upd_read"
    /\ res' = [res EXCEPT ![p] =
                 IF FindById(req[p].id) = {} THEN Throw(UserNotFound)
                 ELSE Ok(SelectedColumns(CHOOSE u \in FindById(req[p].id) : TRUE))]
    /\ pc' = [pc EXCEPT ![p] = "done"]
    /\ UNCHANGED <<userVars, req>>

\* remove(): findOne(id), then userRepository.remove(user)
RemoveUser(p) ==
    /\ pc[p] = "idle"
    /\ \E id \in UserIds :
          /\ req' = [req EXCEPT ![p] = [op |-> "remove", id |-> id]]
          /\ IF FindById(id) = {}
             THEN /\ res' = [res EXCEPT ![p] = Throw(UserNotFound)]
                  /\ UNCHANGED users
             ELSE /\ res' = [res EXCEPT ![p] = Ok("removed")]
                  /\ users' = users \ FindById(id)
    /\ pc' = [pc EXCEPT ![p] = "done"]
    /\ UNCHANGED <<nextUserId, tokens>>

\* findOne(id): the user, or NotFoundException when no row has the id.
FindOneResult(found) ==
    IF found = {} THEN Throw(UserNotFound)
    ELSE Ok(SelectedColumns(CHOOSE u \in found : TRUE))

\* A lookup by email that throws when no row matches.
ThrowIfNone(found) ==
    IF found = {} THEN Throw(NotFoundException("User with email not found"))
    ELSE Ok(SelectedColumns(CHOOSE u \in found : TRUE))

\* findByEmail(email): what userRepository.findOne returns, the user or
\* null (NoUser).
FindByEmailResult(found) ==
    Ok(IF found = {} THEN NoUser ELSE SelectedColumns(CHOOSE u \in found : TRUE))

\* findOne(id)
FindOneUser(p) ==
    /\ pc[p] = "idle"
    /\ \E id \in UserIds :
          /\ req' = [req EXCEPT ![p] = [op |-> "findOneUser", id |-> id]]
          /\ res' = [res EXCEPT ![p] = FindOneResult(FindById(id))]
    /\ pc' = [pc EXCEPT ![p] = "done"]
    /\ UNCHANGED userVars

\* findByEmail(email)
FindUserByEmail(p) ==
    /\ pc[p] = "idle"
    /\ \E email \in Emails :
          /\ req' = [req EXCEPT ![p] = [op |-> "findByEmail", email |-> email]]
          /\ res' = [res EXCEPT ![p] = FindByEmailResult(FindByEmail(email))]
    /\ pc' = [pc EXCEPT ![p] = "done"]
    /\ UNCHANGED userVars

(***************************************************************************)
(* Token Issuer                                                            *)
(***************************************************************************)
Secret == "JWT_SECRET"
\* jwtService.signAsync({id, email})
Sign(payload) == [id |-> payload.id, email |-> payload.email, key |-> Secret]
\* A token signed with another key.
Forged == [id |-> 1, email |-> "a@x.io", key |-> "other"]
\* A verification that takes the payload of any token.
TrustsEveryToken(token) == TRUE

\* jwtService.verifyAsync(token, {secret}) returned a payload
Verifies(token) == token.key = Secret

\* A login that tells an unknown email apart.
UnknownEmailError == UnauthorizedException("User not found")

\* login(): the error thrown when no user has the email
InvalidEmailError == UnauthorizedException("Invalid Credentials")
\* login(): the error thrown when the password does not match
InvalidPasswordError == UnauthorizedException("Invalid Credentials")

\* login(): every error thrown inside the try block is caught and rewrapped.
LoginCatch(e) == InternalServerErrorException(e)

\* login(email, password)
Login(p) ==
    /\ pc[p] = "idle"
    /\ \E email \in Emails, password \in Passwords :
          LET found == FindByEmail(email)
              user == CHOOSE u \in found : TRUE
          IN  /\ req' = [req EXCEPT ![p] =
                           [op |-> "login", email |-> email, password |-> password,
                            matched |-> found # {}]]
              /\ IF found = {}
                 THEN /\ res' = [res EXCEPT ![p] = Throw(LoginCatch(InvalidEmailError))]
                      /\ UNCHANGED tokens
                 ELSE IF ~Compare(password, user.password)
                 THEN /\ res' = [res EXCEPT ![p] = Throw(LoginCatch(InvalidPasswordError))]
                      /\ UNCHANGED tokens
                 ELSE /\ res' = [res EXCEPT ![p] =
                            Ok([token |-> Sign([id |-> user.id, email |-> user.email])])]
                      /\ tokens' = tokens \cup {[id |-> user.id, email |-> user.email]}
    /\ pc' = [pc EXCEPT ![p] = "done"]
    /\ UNCHANGED <<users, nextUserId>>

(***************************************************************************)
(* AuthGuard, RolesGuard and the guarded routes of UsersController.        *)
(***************************************************************************)
\* @Auth() on findAll: Roles() with no role, then AuthGuard and RolesGuard.
\* @Roles(UserRole.ADMIN) @UseGuards(AuthGuard, RolesGuard) on findOne.
Routes == {"GET /users", "GET /users/:id"}

\* reflector.getAllAndOverride(ROLES_KEY, ...): undefined on a route that
\* declares no roles, the declared list otherwise (Roles() declares [])
NoMetadata == [declared |-> FALSE, roles |-> {}]
Declared(roles) == [declared |-> TRUE, roles |-> roles]
RequiredRoles(route) ==
    IF route = "GET /users/:id" THEN Declared({ADMIN}) ELSE Declared({})

Undefined == [id |-> 0, email |-> "", key |-> ""]

\* The Authorization header split at its blanks; <<>> when there is none.
Headers ==
    LET valid == {Sign(t) : t \in tokens}
    IN  {<<>>, <<"Bearer">>, <<"Basic", Forged>>, <<"Bearer", Forged>>}
            \cup {<<"Bearer", t>> : t \in valid}
            \cup {<<"Basic", t>> : t \in valid}

\* An extraction that takes the token of any scheme.
AnyScheme(h) == IF Len(h) >= 2 THEN h[2] ELSE Undefined

\* const [type, token] = request.headers.authorization?.split(' ') ?? [];
\* return type === 'Bearer' ? token : undefined
ExtractTokenFromHeader(h) ==
    LET type == IF Len(h) >= 1 THEN h[1] ELSE ""
        token == IF Len(h) >= 2 THEN h[2] ELSE Undefined
    IN  IF type = "Bearer" THEN token ELSE Undefined

\* A role guard that lets every request through.
AlwaysActivate(requiredRoles, user) == TRUE

\* A role guard that wants an identity on every route.
RequiresIdentity(requiredRoles, user) ==
    IF user = NoUser THEN FALSE
    ELSE requiredRoles.roles = {} \/ user.role \in requiredRoles.roles

\* RolesGuard.canActivate
RolesGuardCanActivate(requiredRoles, user) ==
    IF ~requiredRoles.declared \/ requiredRoles.roles = {} THEN TRUE
    ELSE IF user = NoUser THEN FALSE
    ELSE user.role \in requiredRoles.roles

\* The metadata a route can carry and the identity a request can have
\* attached when the role guard runs.
RoleMetadata == {NoMetadata} \cup {Declared(roles) : roles \in SUBSET UserRole}
Identities == {NoUser} \cup [id : {1}, email : {"a@x.io"}, role : UserRole]

\* RolesGuard.canActivate on its own, for any metadata and any identity.
RolesGuardCall(p) ==
    /\ pc[p] = "idle"
    /\ \E requiredRoles \in RoleMetadata, user \in Identities :
          /\ req' = [req EXCEPT ![p] =
                       [op |-> "canActivate", requiredRoles |-> requiredRoles,
                        user |-> user]]
          /\ res' = [res EXCEPT ![p] = Ok(RolesGuardCanActivate(requiredRoles, user))]
    /\ pc' = [pc EXCEPT ![p] = "done"]

\* How a request stopped by a guard ends.
Rejected(p, r, stage, e) ==
    /\ req' = [req EXCEPT ![p] = [r EXCEPT !.stage = stage]]
    /\ pc' = [pc EXCEPT ![p] = "done"]
    /\ res' = [res EXCEPT ![p] = Throw(e)]

\* AuthGuard.canActivate, then RolesGuard.canActivate (which awaits nothing),
\* for a request to a guarded route.
GuardedRequest(p) ==
    /\ pc[p] = "idle"
    /\ \E route \in Routes, header \in Headers, id \in UserIds :
          LET r == [op |-> "request", route |-> route, header |-> header,
                    id |-> id, stage |-> "NoToken", user |-> NoUser, ran |-> FALSE]
              token == ExtractTokenFromHeader(header)
              found == FindById(token.id)
              user == SelectedColumns(CHOOSE u \in found : TRUE)
          IN  IF token = Undefined
              THEN Rejected(p, r, "NoToken", UnauthorizedException("No token provided"))
              ELSE IF ~Verifies(token)
              THEN Rejected(p, r, "Unverified", JsonWebTokenError("invalid signature"))
              ELSE IF found = {}
              THEN Rejected(p, r, "Verified", UserNotFound)
              ELSE IF ~RolesGuardCanActivate(RequiredRoles(route), user)
              THEN Rejected(p, [r EXCEPT !.user = user], "Forbidden",
                            ForbiddenException("Forbidden resource"))
              ELSE /\ req' = [req EXCEPT ![p] =
                                [r EXCEPT !.user = user, !.stage = "Authorized"]]
                   /\ pc' = [pc EXCEPT ![p] = "handler"]
                   /\ UNCHANGED res
    /\ UNCHANGED userVars

\* The route handler: usersService.findAll() or usersService.findOne(id).
Handler(p) ==
    /\ pc[p] = "handler"
    /\ req' = [req EXCEPT ![p].ran = TRUE]
    /\ res' = [res EXCEPT ![p] =
                 IF req[p].route = "GET /users"
                 THEN Ok({SelectedColumns(u) : u \in users})
                 ELSE IF FindById(req[p].id) = {} THEN Throw(UserNotFound)
                 ELSE Ok(SelectedColumns(CHOOSE u \in FindById(req[p].id) : TRUE))]
    /\ pc' = [pc EXCEPT ![p] = "done"]
    /\ UNCHANGED userVars

(***************************************************************************)
(* ProductsService and the routes of ProductsController.                   *)
(***************************************************************************)
\* CreateProductDto: price and each variant's stock are @IsNumber() and
\* nothing more (name, description, brand, color and size are not modelled:
\* no operation branches on them).
ProductPrices == {-1, 10}
Stocks == {-1, 5}
VariantDto == [stock : Stocks]
CreateProductDto == [price : ProductPrices, variants : {<<v>> : v \in VariantDto}]

\* UpdateProductDto: the fields of CreateProductDto, each of which may be
\* absent.
UpdateProductDto ==
    [price : {20, -1}] \cup [variants : {<<[stock |-> -1]>>}]

ProductKeys == 1..MaxProducts
NoProduct == [id |-> 0]

\* A lookup that misses the rows another request is about to save.
FindOneByUnlessBusy(id) ==
    IF \E q \in Procs : pc[q] = "prod_save" THEN {}
    ELSE {r \in products : r.id = id}

\* productRepository.findOneBy({id})
ProductFindOneBy(id) == {r \in products : r.id = id}

\* productRepository.merge(existingProduct, updateProductDto)
MergeProduct(existing, dto) ==
    [id |-> existing.id,
     price |-> IF "price" \in DOMAIN dto THEN dto.price ELSE existing.price,
     variants |-> IF "variants" \in DOMAIN dto THEN dto.variants
                  ELSE existing.variants]

\* catch (error) of the products service: every error thrown in the try
\* block, the NotFoundException of updateProduct included, is rewrapped.
ProductsCatch(e) == InternalServerErrorException(e)

\* POST /products: no guard stands before the handler, whatever the
\* Authorization header.  addProduct(dto): create, then save.
AddProduct(p) ==
    /\ pc[p] = "idle"
    /\ nextProductId <= MaxProducts
    /\ \E dto \in CreateProductDto, header \in Headers :
          LET product == [id |-> nextProductId, price |-> dto.price,
                          variants |-> dto.variants]
          IN  /\ req' = [req EXCEPT ![p] =
                           [op |-> "addProduct", header |-> header, dto |-> dto]]
              /\ products' = products \cup {product}
              /\ res' = [res EXCEPT ![p] = Ok(product)]
    /\ nextProductId' = nextProductId + 1
    /\ pc' = [pc EXCEPT ![p] = "done"]

\* PUT /products/:id, unguarded too.  updateProduct(id, dto): the lookup.
UpdateProduct(p) ==
    /\ pc[p] = "idle"
    /\ \E id \in ProductKeys, dto \in UpdateProductDto, header \in Headers :
          LET found == ProductFindOneBy(id)
              r == [op |-> "updateProduct", header |-> header, id |-> id,
                    dto |-> dto, existingProduct |-> NoProduct]
          IN  IF found = {}
              THEN /\ req' = [req EXCEPT ![p] = r]
                   /\ pc' = [pc EXCEPT ![p] = "done"]
                   /\ res' = [res EXCEPT ![p] = Throw(ProductsCatch(
                                NotFoundException("Product not found")))]
              ELSE /\ req' = [req EXCEPT ![p] =
                                [r EXCEPT !.existingProduct = CHOOSE x \in found : TRUE]]
                   /\ pc' = [pc EXCEPT ![p] = "prod_save"]
                   /\ UNCHANGED res
    /\ UNCHANGED productVars

\* updateProduct: merge onto the entity read before, and save it; save
\* writes the row with the entity's id, and inserts it when it is gone.
UpdateProductSave(p) ==
    /\ pc[p] = "prod_save"
    /\ LET updatedProduct == MergeProduct(req[p].existingProduct, req[p].dto)
       IN  /\ products' = {r \in products : r.id # updatedProduct.id}
                             \cup {updatedProduct}
           /\ res' = [res EXCEPT ![p] = Ok(updatedProduct)]
    /\ pc' = [pc EXCEPT ![p] = "done"]
    /\ UNCHANGED <<nextProductId, req>>

\* deleteProduct(id): productRepository.delete(id), whether or not a row has
\* the id; the delete is refused while a line item references the product,
\* and waits for a transaction that has inserted one.  No route of the
\* controller calls it.
DeleteProduct(p) ==
    /\ pc[p] = "idle"
    /\ \E id \in ProductKeys :
          /\ \A q \in Procs : pc[q] = "tx_items" =>
                \A i \in req[q].txItems : i.product # id
          /\ req' = [req EXCEPT ![p] = [op |-> "deleteProduct", id |-> id]]
          /\ IF \E i \in orderItems : i.product = id
             THEN /\ res' = [res EXCEPT ![p] = Throw(ProductsCatch(ForeignKeyError))]
                  /\ UNCHANGED products
             ELSE /\ products' = {r \in products : r.id # id}
                  /\ res' = [res EXCEPT ![p] = Ok("void")]
    /\ pc' = [pc EXCEPT ![p] = "done"]
    /\ UNCHANGED nextProductId

\* GET /products/:id.  getOneProduct(id): the row, or null.
GetOneProduct(p) ==
    /\ pc[p] = "idle"
    /\ \E id \in ProductKeys :
          LET found == ProductFindOneBy(id)
          IN  /\ req' = [req EXCEPT ![p] =
                           [op |-> "getOneProduct", id |-> id, store |-> products]]
              /\ res' = [res EXCEPT ![p] =
                           Ok(IF found = {} THEN NoProduct
                              ELSE CHOOSE x \in found : TRUE)]
    /\ pc' = [pc EXCEPT ![p] = "done"]
    /\ UNCHANGED productVars

\* GET /products.  getAllProducts()
GetAllProducts(p) ==
    /\ pc[p] = "idle"
    /\ req' = [req EXCEPT ![p] = [op |-> "getAllProducts"]]
    /\ res' = [res EXCEPT ![p] = Ok(products)]
    /\ pc' = [pc EXCEPT ![p] = "done"]
    /\ UNCHANGED productVars

(***************************************************************************)
(* UploadService                                                           *)
(***************************************************************************)
BadRequestException(m) == [name |-> "BadRequestException", message |-> m]

AllowedMimeTypes == {"image/jpeg", "image/png", "image/gif"}
MaxSizeInBytes == 5 * 1024 * 1024

\* MulterFile: the mime type, the size, and where the bytes are.
Files ==
    [mimetype : AllowedMimeTypes \cup {"application/pdf"},
     size : {MaxSizeInBytes, MaxSizeInBytes + 1},
     data : {"buffer", "path", "none"}]

\* Messages are sequences of the parts they are put together from.
Error(m) == [name |-> "Error", message |-> m]
NoError == [name |-> "", message |-> <<>>]

\* validateFile(file): the BadRequestException it throws, or NoError when
\* the file passes.
ValidateFile(file) ==
    IF file.mimetype \notin AllowedMimeTypes
    THEN BadRequestException(
            <<"Invalid file type. Only JPEG, PNG, and GIF are allowed.">>)
    ELSE IF file.size > MaxSizeInBytes
    THEN BadRequestException(<<"File size exceeds the 5MB limit.">>)
    ELSE NoError

\* A catch of uploadImage that knows no timeout.
UploadCatchPlain(error) ==
    InternalServerErrorException(<<"Upload failed: ">> \o error.message)

\* catch (error) of uploadImage: anything thrown in the try block, the
\* BadRequestException of validateFile included, is rewrapped.
UploadCatch(error) ==
    IF error.message = <<"Upload timeout">>
    THEN InternalServerErrorException(
            <<"File upload timed out. Please try again with a smaller file.">>)
    ELSE InternalServerErrorException(<<"Upload failed: ">> \o error.message)

\* uploadImage(file) of the validating service, up to the call of the
\* storage provider.
UploadImage(p) ==
    /\ pc[p] = "idle"
    /\ \E file \in Files :
          LET r == [op |-> "uploadImage", file |-> file, called |-> FALSE,
                    provider |-> "idle", timer |-> "idle"]
          IN  IF ValidateFile(file) # NoError
              THEN /\ req' = [req EXCEPT ![p] = r]
                   /\ pc' = [pc EXCEPT ![p] = "done"]
                   /\ res' = [res EXCEPT ![p] = Throw(UploadCatch(ValidateFile(file)))]
              ELSE IF file.data = "none"
              THEN /\ req' = [req EXCEPT ![p] = r]
                   /\ pc' = [pc EXCEPT ![p] = "done"]
                   /\ res' = [res EXCEPT ![p] = Throw(
                                UploadCatch(BadRequestException(<<"No file data provided">>)))]
              ELSE /\ req' = [req EXCEPT ![p] =
                                [r EXCEPT !.called = TRUE, !.provider = "pending",
                                          !.timer = "armed"]]
                   /\ pc' = [pc EXCEPT ![p] = "uploading"]
                   /\ UNCHANGED res

\* uploadImage(file) of the first service of upload.service.ts: the buffer
\* goes to the provider as it is.
UploadImageUnchecked(p) ==
    /\ pc[p] = "idle"
    /\ \E file \in Files :
          req' = [req EXCEPT ![p] =
                    [op |-> "uploadImageUnchecked", file |-> file, called |-> TRUE,
                     provider |-> "pending", timer |-> "idle"]]
    /\ pc' = [pc EXCEPT ![p] = "uploading"]
    /\ UNCHANGED res

CloudinaryResponse(file) == [public_id |-> "uploads/1", bytes |-> file.size]

\* The messages of the errors of the storage provider.
ProviderErrors == {<<"provider error">>, <<"Request Timeout">>}

\* How the provider call of the first service ends: the callback has the
\* result, or an error that catch rewraps.  No timer runs beside it.
UploadUncheckedSettle(p) ==
    /\ pc[p] = "uploading"
    /\ req[p].op = "uploadImageUnchecked"
    /\ \/ /\ res' = [res EXCEPT ![p] = Ok(CloudinaryResponse(req[p].file))]
          /\ req' = [req EXCEPT ![p].provider = "result"]
       \/ /\ \E m \in ProviderErrors :
               res' = [res EXCEPT ![p] = Throw(InternalServerErrorException(
                                            <<"Upload failed: ">> \o m))]
          /\ req' = [req EXCEPT ![p].provider = "error"]
    /\ pc' = [pc EXCEPT ![p] = "done"]

\* What uploadPromise settles with: the provider's result; its error (the
\* callback of upload_stream wraps it in an Error with a prefix, the promise
\* of uploader.upload rejects with the provider's own value, an Error or an
\* object that is none); or, for upload_stream, neither error nor result.
ProviderAnswers(file) ==
    {[kind |-> "result", error |-> NoError]}
        \cup {[kind |-> "error",
               error |-> IF file.data = "buffer"
                         THEN Error(<<"Cloudinary error: ">> \o m) ELSE Error(m)]
                 : m \in ProviderErrors}
        \cup (IF file.data = "buffer"
              THEN {[kind |-> "none",
                     error |-> Error(<<"Upload failed: No result returned">>)]}
              ELSE {[kind |-> "error", error |-> Error(<<"[object Object]">>)]})

\* The provider answers.  Promise.race settles with the answer when the
\* timer has not fired yet; an answer that comes later changes nothing.
UploadSettle(p) ==
    /\ req[p].op = "uploadImage"
    /\ pc[p] \in {"uploading", "done"}
    /\ req[p].provider = "pending"
    /\ \E a \in ProviderAnswers(req[p].file) :
          /\ req' = [req EXCEPT ![p].provider = a.kind]
          /\ IF pc[p] = "uploading"
             THEN /\ res' = [res EXCEPT ![p] =
                              IF a.kind = "result"
                              THEN Ok(CloudinaryResponse(req[p].file))
                              ELSE Throw(UploadCatch(a.error))]
                  /\ pc' = [pc EXCEPT ![p] = "done"]
             ELSE UNCHANGED <<pc, res>>

\* The timer of the race fires (it is never cleared).  Promise.race settles
\* with Error('Upload timeout') when the provider has not answered yet; a
\* timer that fires later changes nothing.
UploadTimeout(p) ==
    /\ req[p].op = "uploadImage"
    /\ pc[p] \in {"uploading", "done"}
    /\ req[p].timer = "armed"
    /\ req' = [req EXCEPT ![p].timer = "fired"]
    /\ IF pc[p] = "uploading"
       THEN /\ res' = [res EXCEPT ![p] = Throw(UploadCatch(Error(<<"Upload timeout">>)))]
            /\ pc' = [pc EXCEPT ![p] = "done"]
       ELSE UNCHANGED <<pc, res>>

(***************************************************************************)
(* The program                                                             *)
(***************************************************************************)
\* The response has been sent; the slot serves the next request.
Return(p) ==
    /\ pc[p] = "done"
    /\ pc' = [pc EXCEPT ![p] = "idle"]
    /\ req' = [req EXCEPT ![p] = NoReq]
    /\ res' = [res EXCEPT ![p] = NoRes]

Init ==
    /\ orders = {}
    /\ orderItems = {}
    /\ nextOrderId = 1
    /\ users = {}
    /\ nextUserId = 1
    /\ tokens = {}
    /\ products = {}
    /\ nextProductId = 1
    /\ pc = [p \in Procs |-> "idle"]
    /\ req = [p \in Procs |-> NoReq]
    /\ res = [p \in Procs |-> NoRes]

\* The orders service, over a catalog that products are added to.
OrdersNext ==
    \/ /\ \E p \in Procs :
             \/ CreateOrder(p)
             \/ CreateSaveOrder(p)
             \/ CreateSaveItem(p)
             \/ CreateFindFull(p)
             \/ FindOneOrder(p)
             \/ FindAllOrders(p)
             \/ Return(p) /\ UNCHANGED orderVars
       /\ UNCHANGED <<userVars, productVars>>
    \/ /\ \E p \in Procs : AddProduct(p)
       /\ UNCHANGED <<orderVars, userVars>>

\* The state addProduct leaves when it has stored the first product of the
\* catalog and answered: the product the submitted line items name.
Catalogued == [id |-> 1, price |-> 10, variants |-> <<[stock |-> 5]>>]

InitCatalogued ==
    /\ orders = {}
    /\ orderItems = {}
    /\ nextOrderId = 1
    /\ users = {}
    /\ nextUserId = 1
    /\ tokens = {}
    /\ products = {Catalogued}
    /\ nextProductId = 2
    /\ pc = [p \in Procs |-> "idle"]
    /\ req = [p \in Procs |-> NoReq]
    /\ res = [p \in Procs |-> NoRes]

\* The operations on one order by its id, with the creates that store it.
OrderOpsNext ==
    /\ \E p \in Procs :
          \/ CreateOrder(p)
          \/ CreateSaveOrder(p)
          \/ CreateSaveItem(p)
          \/ CreateFindFull(p)
          \/ FindOneOrder(p)
          \/ UpdateOrder(p)
          \/ UpdateOrderSave(p)
          \/ UpdateStatus(p)
          \/ UpdateStatusSave(p)
          \/ RemoveOrder(p)
          \/ RemoveOrderRow(p)
          \/ Return(p) /\ UNCHANGED orderVars
    /\ UNCHANGED <<userVars, productVars>>

\* The state create leaves when, over that catalog, it has stored the first
\* order with one line item and answered.
FirstOrderDto ==
    [userId |-> 7, shippingAddress |-> "123 Main Street",
     paymentMethod |-> "credit_card",
     orderItems |-> <<[productId |-> 1, quantity |-> 2, price |-> 5]>>]

Placed == OrderRow(1, FirstOrderDto, SumItems(FirstOrderDto.orderItems))

InitPlaced ==
    /\ orders = {Placed}
    /\ orderItems = {OrderItemRow(Placed, 1, FirstOrderDto.orderItems[1])}
    /\ nextOrderId = 2
    /\ users = {}
    /\ nextUserId = 1
    /\ tokens = {}
    /\ products = {Catalogued}
    /\ nextProductId = 2
    /\ pc = [p \in Procs |-> "idle"]
    /\ req = [p \in Procs |-> NoReq]
    /\ res = [p \in Procs |-> NoRes]

\* The writes to an order that is stored: update, updateStatus and remove.
PlacedOrderNext ==
    /\ \E p \in Procs :
          \/ UpdateOrder(p)
          \/ UpdateOrderSave(p)
          \/ UpdateStatus(p)
          \/ UpdateStatusSave(p)
          \/ RemoveOrder(p)
          \/ RemoveOrderRow(p)
          \/ Return(p) /\ UNCHANGED orderVars
    /\ UNCHANGED <<userVars, productVars>>

UsersNext ==
    /\ \E p \in Procs :
          \/ CreateUser(p)
          \/ CreateUserSave(p)
          \/ UpdateUser(p)
          \/ UpdateUserCheck(p)
          \/ UpdateUserWrite(p)
          \/ UpdateUserRead(p)
          \/ RemoveUser(p)
          \/ Return(p) /\ UNCHANGED userVars
    /\ UNCHANGED <<orderVars, productVars>>

AuthNext ==
    /\ \E p \in Procs :
          \/ CreateUser(p)
          \/ CreateUserSave(p)
          \/ RemoveUser(p)
          \/ Login(p)
          \/ GuardedRequest(p)
          \/ Handler(p)
          \/ Return(p) /\ UNCHANGED userVars
    /\ UNCHANGED <<orderVars, productVars>>

\* The operations that answer with a user or attach one: registration,
\* update and the guarded reads, with the logins that give them tokens.
AccountNext ==
    /\ \E p \in Procs :
          \/ CreateUser(p)
          \/ CreateUserSave(p)
          \/ UpdateUser(p)
          \/ UpdateUserCheck(p)
          \/ UpdateUserWrite(p)
          \/ UpdateUserRead(p)
          \/ Login(p)
          \/ GuardedRequest(p)
          \/ Handler(p)
          \/ Return(p) /\ UNCHANGED userVars
    /\ UNCHANGED <<orderVars, productVars>>

\* Registration, update and login: the writes and the read of a password.
CredentialNext ==
    /\ \E p \in Procs :
          \/ CreateUser(p)
          \/ CreateUserSave(p)
          \/ UpdateUser(p)
          \/ UpdateUserCheck(p)
          \/ UpdateUserWrite(p)
          \/ UpdateUserRead(p)
          \/ Login(p)
          \/ Return(p) /\ UNCHANGED userVars
    /\ UNCHANGED <<orderVars, productVars>>

\* The two lookups of the users service, with the writes that store and
\* remove users.
LookupNext ==
    /\ \E p \in Procs :
          \/ CreateUser(p)
          \/ CreateUserSave(p)
          \/ RemoveUser(p)
          \/ FindOneUser(p)
          \/ FindUserByEmail(p)
          \/ Return(p) /\ UNCHANGED userVars
    /\ UNCHANGED <<orderVars, productVars>>

RolesNext ==
    /\ \E p \in Procs :
          \/ RolesGuardCall(p)
          \/ Return(p)
    /\ UNCHANGED <<orderVars, userVars, productVars>>

UploadNext ==
    /\ \E p \in Procs :
          \/ UploadImage(p)
          \/ UploadImageUnchecked(p)
          \/ UploadUncheckedSettle(p)
          \/ UploadSettle(p)
          \/ UploadTimeout(p)
          \/ Return(p)
    /\ UNCHANGED <<orderVars, userVars, productVars>>

ProductsNext ==
    /\ \E p \in Procs :
          \/ AddProduct(p)
          \/ UpdateProduct(p)
          \/ UpdateProductSave(p)
          \/ DeleteProduct(p)
          \/ GetOneProduct(p)
          \/ GetAllProducts(p)
          \/ Return(p) /\ UNCHANGED productVars
    /\ UNCHANGED <<orderVars, userVars>>

Next ==
    OrdersNext \/ OrderOpsNext \/ PlacedOrderNext \/ UsersNext \/ CredentialNext \/ LookupNext \/ RolesNext \/ AuthNext \/ AccountNext \/ UploadNext \/ ProductsNext

\* The whole program, and its two parts on their own: a request to one
\* service touches none of the other's tables.
Spec == Init /\ [][Next]_vars
OrdersSpec == Init /\ [][OrdersNext]_vars
OrderOpsSpec == InitCatalogued /\ [][OrderOpsNext]_vars
PlacedOrderSpec == InitPlaced /\ [][PlacedOrderNext]_vars
UsersSpec == Init /\ [][UsersNext]_vars
AuthSpec == Init /\ [][AuthNext]_vars
UploadSpec == Init /\ [][UploadNext]_vars
AccountSpec == Init /\ [][AccountNext]_vars
LookupSpec == Init /\ [][LookupNext]_vars
CredentialSpec == Init /\ [][CredentialNext]_vars
RolesSpec == Init /\ [][RolesNext]_vars
ProductsSpec == Init /\ [][ProductsNext]_vars

(***************************************************************************)
(* Claims about the order transaction, checked under OrdersSpec.           *)
(***************************************************************************)
Creating(p) == req[p].op = "create"
InTransaction(p) == Creating(p) /\ pc[p] \in {"tx_order", "tx_items"}
WrittenBy(p) == req[p].txOrder.id
Submitted(p) == req[p].dto.orderItems

\* The sum of price x quantity over line items 1..n, as the claims state it.
RECURSIVE SigmaPriceQuantity(_, _)
SigmaPriceQuantity(items, n) ==
    IF n = 0 THEN 0
    ELSE SigmaPriceQuantity(items, n - 1) + items[n].price * items[n].quantity

\* x rounded to two decimal places, halves away from zero.
RoundedToCents(x) ==
    LET cent == Pow10(Digits - 2)
    IN  IF (x % cent) * 2 >= cent THEN (x \div cent + 1) * cent
        ELSE (x \div cent) * cent

\* C1: when a step of createOrder's unit of work fails (the header insert, a
\* line-item insert at any position, the re-read), then once the call has
\* returned the store holds no order header and no line item written by it.
C1_FailedCreateLeavesNothing ==
    \A p \in Procs :
        (Creating(p) /\ Failed(p)) =>
            /\ \A o \in orders : o.id # WrittenBy(p)
            /\ \A i \in orderItems : i.order # WrittenBy(p)

\* C1 witness: a create of two items has failed at the insert of the second,
\* after the header and the first item were written.
C1_Witness ==
    \E p \in Procs :
        /\ Creating(p) /\ Failed(p)
        /\ Len(Submitted(p)) = 2 /\ req[p].k = 2
        /\ Cardinality(req[p].txItems) = 1

\* C2 (as amended): a createOrder that succeeds stores and returns an order
\* whose totalAmount is the sum of price x quantity over the submitted items
\* rounded to two decimal places, with exactly one stored line item per
\* submitted item, each referencing the new order's id.
C2_TotalIsRoundedSum ==
    [][\A p \in Procs :
          (Creating(p) /\ pc[p] = "tx_items" /\ pc'[p] = "done"
             /\ res'[p].kind = "ok") =>
            LET r == res'[p].value
                want == RoundedToCents(
                          SigmaPriceQuantity(Submitted(p), Len(Submitted(p))))
                stored == {i \in orderItems' : i.order = r.id}
            IN  /\ r.id = WrittenBy(p)
                /\ r.totalAmount = want
                /\ \E o \in orders' : o.id = r.id /\ o.totalAmount = want
                /\ r.orderItems = stored
                /\ Cardinality(stored) = Len(Submitted(p))
                /\ \A k \in 1..Len(Submitted(p)) :
                      \E i \in stored :
                          /\ i.id = <<r.id, k>>
                          /\ i.price = Submitted(p)[k].price
                          /\ i.quantity = Submitted(p)[k].quantity
                          /\ i.product = Submitted(p)[k].productId]_vars

\* C2 witness: a create of two items has succeeded with a sum that is not a
\* whole number of cents.
C2_Witness ==
    \E p \in Procs :
        /\ Creating(p) /\ Succeeded(p)
        /\ Len(Submitted(p)) = 2
        /\ SigmaPriceQuantity(Submitted(p), 2) % Pow10(Digits - 2) # 0
        /\ \E o \in orders : o.id = res[p].value.id

\* C2 as stated: the stored and returned totalAmount is the sum itself.
C2_TotalIsExactSum ==
    \A p \in Procs :
        (Creating(p) /\ Succeeded(p)) =>
            res[p].value.totalAmount =
                SigmaPriceQuantity(Submitted(p), Len(Submitted(p)))

\* The order ids a finished read returned.
SeenIds(q) ==
    IF pc[q] = "done" /\ res[q].kind = "ok" /\ req[q].op = "findOne"
    THEN {res[q].value.id}
    ELSE IF pc[q] = "done" /\ res[q].kind = "ok" /\ req[q].op = "findAll"
    THEN {o.id : o \in res[q].value}
    ELSE {}

\* C3: while a createOrder is in progress no findOne or findAll observes a
\* part of it: nothing the call wrote is visible before it commits, and a
\* visible header comes with all of its line items.
C3_NoPartialOrderVisible ==
    \A p \in Procs :
        Creating(p) =>
            /\ InTransaction(p) =>
                  /\ \A o \in orders : o.id # WrittenBy(p)
                  /\ \A i \in orderItems : i.order # WrittenBy(p)
                  /\ \A q \in Procs : WrittenBy(p) \notin SeenIds(q)
            /\ (\E o \in orders : o.id = WrittenBy(p)) =>
                  Cardinality({i \in orderItems : i.order = WrittenBy(p)})
                      = Len(Submitted(p))

\* C3 witness: a findOne of the order a transaction has half written (the
\* header and one of two items) has answered, and did not find it.
C3_Witness ==
    \E p, q \in Procs :
        /\ InTransaction(p) /\ Len(Submitted(p)) = 2 /\ req[p].k = 2
        /\ pc[q] = "done" /\ req[q].op = "findOne"
        /\ req[q].id = WrittenBy(p)
        /\ res[q].kind = "error"

(***************************************************************************)
(* Claims about the credential store, checked under UsersSpec.             *)
(***************************************************************************)
Registers(p) == pc[p] = "idle" /\ req'[p].op = "register"

\* C4: register with an email an existing user holds fails with Conflict,
\* and the stored users (the holder's record among them) are unchanged.
C4_DuplicateEmailConflicts ==
    [][\A p \in Procs :
          (Registers(p) /\ \E u \in users : u.email = req'[p].dto.email) =>
              /\ pc'[p] = "done"
              /\ res'[p].kind = "error"
              /\ res'[p].error.name = "ConflictException"
              /\ users' = users]_vars

\* C4 witness: a register has ended with Conflict while a user holds the email.
C4_Witness ==
    \E p \in Procs :
        /\ req[p].op = "register" /\ Failed(p)
        /\ res[p].error.name = "ConflictException"
        /\ \E u \in users : u.email = req[p].dto.email

\* C5: in every reachable state, whatever the interleaving of register and
\* update calls, no two stored users have the same email.
C5_EmailsUnique ==
    \A u, v \in users : u.email = v.email => u = v

\* C5 witness: two users are stored and an update that raced another write
\* to the same email was refused at its write.
C5_Witness ==
    /\ Cardinality(users) = 2
    /\ \E p \in Procs :
          /\ req[p].op = "update" /\ Failed(p)
          /\ res[p].error.name = "QueryFailedError"

(***************************************************************************)
(* Claims about login and the guards, checked under AuthSpec.              *)
(***************************************************************************)
LoginFailed(p) == req[p].op = "login" /\ Failed(p)

\* C6: login with an email no user has, or with a registered email and a
\* password that does not match, fails with Unauthorized.
C6_LoginFailsUnauthorized ==
    \A p \in Procs :
        LoginFailed(p) => res[p].error.name = "UnauthorizedException"

\* C7: a failed login ends the same way (same error, same message) whether
\* the email is unregistered or registered with a wrong password.
C7_FailuresIndistinguishable ==
    \A p, q \in Procs :
        (LoginFailed(p) /\ ~req[p].matched /\ LoginFailed(q) /\ req[q].matched)
            => res[p] = res[q]

\* C7 witness: one login has failed on an unregistered email and another on
\* a registered email with a wrong password.
C7_Witness ==
    \E p, q \in Procs :
        /\ LoginFailed(p) /\ ~req[p].matched
        /\ LoginFailed(q) /\ req[q].matched
        /\ \E u \in users : u.email = req[q].email /\ ~Compare(req[q].password, u.password)

Requests(p) == req[p].op = "request"

\* C8: a request to a guarded route with a validly signed token whose user
\* has been removed is rejected with Unauthorized, the handler not run.
C8_RemovedUserUnauthorized ==
    \A p \in Procs :
        (Requests(p) /\ Failed(p) /\ req[p].stage = "Verified") =>
            /\ res[p].error.name = "UnauthorizedException"
            /\ ~req[p].ran

\* C9: on the route that requires role admin, a request whose token resolves
\* to a user of role user is rejected with Forbidden and the handler is not
\* run; one whose token resolves to an admin reaches the handler.
C9_AdminOnlyRoute ==
    \A p \in Procs :
        (Requests(p) /\ req[p].route = "GET /users/:id" /\ req[p].user # NoUser) =>
            /\ req[p].user.role = "user" =>
                  /\ Failed(p)
                  /\ res[p].error.name = "ForbiddenException"
                  /\ ~req[p].ran
            /\ req[p].user.role = ADMIN =>
                  /\ pc[p] \in {"handler", "done"}
                  /\ pc[p] = "done" => req[p].ran

\* C9 witness: on that route one request of a user was refused and one of
\* an admin has run the handler.
C9_Witness ==
    \E p, q \in Procs :
        /\ Requests(p) /\ req[p].route = "GET /users/:id"
        /\ req[p].user # NoUser /\ req[p].user.role = "user" /\ Failed(p)
        /\ Requests(q) /\ req[q].route = "GET /users/:id"
        /\ req[q].user # NoUser /\ req[q].user.role = ADMIN
        /\ pc[q] = "done" /\ req[q].ran

(***************************************************************************)
(* Claims about the uploader, checked under UploadSpec.                    *)
(***************************************************************************)
Uploads(p) == req[p].op \in {"uploadImage", "uploadImageUnchecked"}
TooLargeOrWrongType(file) ==
    file.size > 5 * 1024 * 1024
        \/ file.mimetype \notin {"image/jpeg", "image/png", "image/gif"}

\* C10: uploadImage of a file over 5 MiB, or of a MIME type other than
\* image/jpeg, image/png, image/gif, fails with BadRequest, and no call to
\* the storage provider is made for it.
C10_InvalidFileBadRequest ==
    \A p \in Procs :
        (Uploads(p) /\ TooLargeOrWrongType(req[p].file)) =>
            /\ ~req[p].called
            /\ pc[p] = "done" => (res[p].kind = "error"
                                  /\ res[p].error.name = "BadRequestException")

(***************************************************************************)
(* Claims about what user reads return, checked under AccountSpec.         *)
(***************************************************************************)
HasPassword(x) == "password" \in DOMAIN x

NotBearer(h) == Len(h) = 0 \/ h[1] # "Bearer"

\* C12: a request with no Authorization header, or with a scheme other than
\* Bearer, fails with Unauthorized("No token provided") before any token is
\* verified and before any user is looked up.
C12_OnlyBearerAccepted ==
    \A p \in Procs :
        (Requests(p) /\ NotBearer(req[p].header)) =>
            /\ Failed(p)
            /\ res[p].error = [name |-> "UnauthorizedException",
                               message |-> "No token provided"]
            /\ req[p].stage = "NoToken"
            /\ req[p].user = NoUser
            /\ ~req[p].ran

\* C12 witness: a request that carries the validly signed token of a stored
\* user under the Basic scheme has been refused.
C12_Witness ==
    \E p \in Procs :
        /\ Requests(p) /\ Failed(p)
        /\ Len(req[p].header) = 2 /\ req[p].header[1] = "Basic"
        /\ Verifies(req[p].header[2])
        /\ FindById(req[p].header[2].id) # {}

(***************************************************************************)
(* Claims about the catalog, checked under ProductsSpec.                   *)
(***************************************************************************)
\* The request's Authorization header names a stored user of role admin.
CarriesAdmin(h) ==
    LET t == IF Len(h) = 2 /\ h[1] = "Bearer" THEN h[2] ELSE Undefined
    IN  /\ t # Undefined
        /\ t.key = Secret
        /\ \E u \in users : u.id = t.id /\ u.role = "admin"

WritesProducts(p) ==
    /\ pc'[p] # pc[p]
    /\ req'[p].op \in {"addProduct", "updateProduct"}

\* C13: a request that does not carry the identity of an administrator
\* never changes the set of stored products or a product's fields.
C13_OnlyAdminsWriteProducts ==
    [][\A p \in Procs :
          (WritesProducts(p) /\ ~CarriesAdmin(req'[p].header)) =>
              products' = products]_vars

(***************************************************************************)
(* Claims about the errors of the orders service, checked under OrdersSpec.*)
(***************************************************************************)
\* C14: a createOrder whose unit of work fails reports InternalError
\* wrapping the underlying cause; it returns no order and reports no other
\* kind of error.
C14_CreateFailsWithInternalError ==
    \A p \in Procs :
        (Creating(p) /\ pc[p] = "done") =>
            \/ /\ res[p].kind = "ok"
               /\ res[p].value.id = WrittenBy(p)
            \/ /\ res[p].kind = "error"
               /\ res[p].error.name = "InternalServerErrorException"
               /\ res[p].error.cause.name = "QueryFailedError"

\* C14 witness: a create of two line items has failed at the re-read that
\* follows the insert of the last item.
C14_Witness ==
    \E q \in Procs :
        /\ Creating(q) /\ Failed(q) /\ WrittenBy(q) # 0
        /\ Len(Submitted(q)) = 2 /\ req[q].k > Len(Submitted(q))
        /\ res[q].error.cause.name = "QueryFailedError"

(***************************************************************************)
(* Claims about the catalog's reads and fields, under ProductsSpec.        *)
(***************************************************************************)
ReadsProduct(p) == pc[p] = "idle" /\ req'[p].op = "getOneProduct"
HasReadProduct(p) == req[p].op = "getOneProduct" /\ pc[p] = "done"

C16_PriceAndStockNonNegative ==
    \A r \in products :
        /\ r.price >= 0
        /\ \A i \in 1..Len(r.variants) : r.variants[i].stock >= 0

\* C18: updateProduct with an id that matches no product fails with
\* NotFound, and creates or changes no product.
C18_UpdateMissingProductNotFound ==
    \A p \in Procs :
        (req[p].op = "updateProduct" /\ Failed(p)) =>
            /\ res[p].error.name = "NotFoundException"
            /\ req[p].existingProduct = NoProduct

Looks(p) ==
    /\ pc[p] = "idle"
    /\ req'[p].op \in {"findOne", "update", "updateStatus", "remove"}

TimedOut ==
    [kind |-> "error",
     error |-> [name |-> "InternalServerErrorException",
                cause |-> <<"File upload timed out. Please try again with a smaller file.">>]]

Races(p) == req[p].op = "uploadImage" /\ req[p].called

\* C19: when the timer expires before the provider has answered, uploadImage
\* ends with the timeout error; that error is never the one reported for
\* an error of the provider; and a call ends once, with the response, a
\* provider error or the timeout, and keeps that outcome.
C19_TimeoutIsDistinctAndFinal ==
    /\ [][\A p \in Procs : Races(p) =>
              /\ (pc[p] = "uploading" /\ req[p].timer = "armed"
                      /\ req'[p].timer = "fired")
                    => (pc'[p] = "done" /\ res'[p] = TimedOut)
              /\ (pc[p] = "uploading" /\ req'[p].provider \in {"error", "none"})
                    => (pc'[p] = "done" /\ res'[p].kind = "error"
                            /\ res'[p] # TimedOut)
              /\ (pc[p] = "uploading" /\ req'[p].provider = "result")
                    => (pc'[p] = "done" /\ res'[p].kind = "ok")
              /\ (pc[p] = "done" /\ pc'[p] = "done") => res'[p] = res[p]]_vars
    /\ [](\A p \in Procs : (Races(p) /\ pc[p] = "uploading") =>
              (req[p].provider = "pending" /\ req[p].timer = "armed"))

\* C19 witness: one call has timed out and the provider's answer came
\* after; another has ended with the provider's error and its timer fired
\* after.
C19_Witness ==
    \E p, q \in Procs :
        /\ Races(p) /\ pc[p] = "done" /\ res[p] = TimedOut
        /\ req[p].provider = "result"
        /\ Races(q) /\ pc[q] = "done" /\ req[q].provider = "error"
        /\ req[q].timer = "fired" /\ res[q] # TimedOut

(***************************************************************************)
(* Claims about the round trip of a credential, checked under AuthSpec.    *)
(***************************************************************************)
\* User u is stored with the hash of this password.
RegisteredWith(u, email, password) ==
    /\ u \in users
    /\ u.email = email
    /\ \E salt \in Salts :
          u.password = [salt |-> salt, digest |-> <<salt, password>>]

LogsIn(p) == pc[p] = "idle" /\ req'[p].op = "login"
Presents(p, u) ==
    /\ pc[p] = "idle" /\ req'[p].op = "request"
    /\ req'[p].route = "GET /users"
    /\ req'[p].header = <<"Bearer", [id |-> u.id, email |-> u.email, key |-> Secret]>>

\* C20: for a user stored by register(email, password), login with the same
\* email and password succeeds and returns a token that embeds the user's
\* id and email, and the guard resolves that token to the same user.
C20_RegisterLoginGuardRoundTrip ==
    [][\A p \in Procs : \A u \in users :
          /\ (LogsIn(p) /\ RegisteredWith(u, req'[p].email, req'[p].password)) =>
                /\ pc'[p] = "done"
                /\ res'[p].kind = "ok"
                /\ res'[p].value.token.id = u.id
                /\ res'[p].value.token.email = u.email
                /\ res'[p].value.token.key = Secret
          /\ Presents(p, u) =>
                /\ pc'[p] = "handler"
                /\ req'[p].user.id = u.id
                /\ req'[p].user.email = u.email
                /\ req'[p].user.role = u.role]_vars

\* C20 witness: a user has registered, logged in, and a request with the
\* token of that login has passed the guard as that user, while a second
\* user is stored.
C20_Witness ==
    \E p \in Procs : \E u \in users :
        /\ Requests(p) /\ pc[p] = "handler"
        /\ req[p].header = <<"Bearer", [id |-> u.id, email |-> u.email, key |-> Secret]>>
        /\ req[p].user.id = u.id
        /\ [id |-> u.id, email |-> u.email] \in tokens
        /\ Cardinality(users) = 2

(***************************************************************************)
(* Claims about the steps of the guards, checked under AuthSpec.           *)
(***************************************************************************)
Arrives(p) == pc[p] = "idle" /\ req'[p].op = "request"

\* The token a header carries under the Bearer scheme, if it carries one.
BearerOf(h) == IF Len(h) = 2 /\ h[1] = "Bearer" THEN {h[2]} ELSE {}

\* The step at which the guards stop a request with this header on this
\* route over the stored users, "Authorized" when none does.
StopsAt(h, route) ==
    IF BearerOf(h) = {} THEN "NoToken"
    ELSE LET t == CHOOSE x \in BearerOf(h) : TRUE
         IN  IF t.key # "JWT_SECRET" THEN "Unverified"
             ELSE IF \A u \in users : u.id # t.id THEN "Verified"
             ELSE IF route = "GET /users/:id"
                     /\ \A u \in users : u.id = t.id => u.role # "admin"
             THEN "Forbidden"
             ELSE "Authorized"

\* C21: on a guarded route the handler runs only after a bearer token was
\* extracted, then verified, then the user it names resolved from the store
\* and, when roles are declared, the role check passed; the identity
\* attached to the request is the user stored under the token's id; and the
\* handler never runs when one of these steps fails.
C21_HandlerOnlyAfterGuardSteps ==
    /\ [][\A p \in Procs : Arrives(p) =>
              LET stage == StopsAt(req'[p].header, req'[p].route)
              IN  /\ req'[p].stage = stage
                  /\ ~req'[p].ran
                  /\ stage # "Authorized" =>
                        (pc'[p] = "done" /\ res'[p].kind = "error")
                  /\ stage \in {"NoToken", "Unverified", "Verified"} =>
                        req'[p].user = NoUser
                  /\ stage \in {"Forbidden", "Authorized"} =>
                        \E u \in users :
                            /\ u.id = req'[p].header[2].id
                            /\ req'[p].user =
                                  [id |-> u.id, email |-> u.email, role |-> u.role]
                  /\ stage = "Authorized" => pc'[p] = "handler"]_vars
    /\ [](\A p \in Procs : Requests(p) =>
              /\ pc[p] = "handler" => req[p].stage = "Authorized"
              /\ req[p].ran => req[p].stage = "Authorized")

\* C21 witness: the handler of the admin route has run for a request whose
\* token names an admin, one of two stored users, and a request whose forged
\* token names a stored user was stopped at the verification.
C21_Witness ==
    \E p, q \in Procs :
        /\ Requests(p) /\ pc[p] = "done" /\ req[p].ran
        /\ req[p].route = "GET /users/:id"
        /\ req[p].user.id = req[p].header[2].id
        /\ Cardinality(users) = 2
        /\ Requests(q) /\ Failed(q) /\ req[q].stage = "Unverified"
        /\ \E u \in users : u.id = req[q].header[2].id

(***************************************************************************)
(* Claims about the writes to a stored order, checked under                *)
(* PlacedOrderSpec.                                                        *)
(***************************************************************************)
Saves(p) == pc[p] \in {"upd_save", "status_save"} /\ pc'[p] = "done"
Stored(id) == {o \in orders : o.id = id}

\* The datastore failed the statement: the one error a save ends with.
StatementFailed ==
    [kind |-> "error",
     error |-> [name |-> "InternalServerErrorException",
                cause |-> [name |-> "QueryFailedError",
                           message |-> "statement failed"]]]

\* Row o holds the value this call wrote to the field it set.
HoldsWriteOf(r, o) ==
    IF r.op = "updateStatus" THEN o.status = r.status
    ELSE IF "shippingAddress" \in DOMAIN r.dto
    THEN o.shippingAddress = r.dto.shippingAddress
    ELSE o.totalAmount = RoundedToCents(
             SigmaPriceQuantity(r.dto.orderItems, Len(r.dto.orderItems)))

\* C22: when update or updateStatus calls on the same stored order run
\* concurrently, none is rejected because of another (a call that found the
\* order goes on to its save, and a save fails only when the datastore
\* fails the statement), and a save that is executed leaves the field it
\* wrote at its own value: the value stored last is that of the last save.
C22_LastWriteWins ==
    [][/\ \A p \in Procs :
            /\ (pc[p] = "idle" /\ req'[p].op \in {"update", "updateStatus"}
                    /\ Stored(req'[p].id) # {})
                  => (pc'[p] \in {"upd_save", "status_save"}
                        /\ req'[p].existingOrder \in Stored(req'[p].id))
            /\ Saves(p) =>
                  \/ res'[p] = StatementFailed /\ orders' = orders
                  \/ /\ res'[p].kind = "ok"
                     /\ \E o \in orders' : o.id = req[p].id /\ HoldsWriteOf(req[p], o)
       /\ orders' # orders =>
            \E p \in Procs :
                pc[p] \in {"upd_save", "status_save", "remove_row"} /\ pc'[p] = "done"
      ]_vars

\* C22 witness: two updateStatus calls that both read the order while it was
\* pending have both succeeded with different statuses, and the stored
\* status is that of one of them.
C22_Witness ==
    \E p, q \in Procs :
        /\ req[p].op = "updateStatus" /\ Succeeded(p)
        /\ req[q].op = "updateStatus" /\ Succeeded(q)
        /\ req[p].id = req[q].id
        /\ req[p].existingOrder.status = "pending"
        /\ req[q].existingOrder.status = "pending"
        /\ req[p].status = "shipped" /\ req[q].status = "cancelled"
        /\ \E o \in orders : o.id = req[q].id /\ o.status = req[q].status

SavesStatus(p) == pc[p] = "status_save" /\ pc'[p] = "done"

\* C23: status transitions are unconstrained: for every pair of statuses s
\* and t, updateStatus(id, t) on a stored order whose status is s goes on to
\* its save, the save can succeed, and a save that the datastore executes
\* succeeds and leaves the order with status t.
C23_AnyStatusOverwritesAny ==
    /\ [][\A p \in Procs :
              /\ (pc[p] = "idle" /\ req'[p].op = "updateStatus"
                      /\ Stored(req'[p].id) # {})
                    => pc'[p] = "status_save"
              /\ SavesStatus(p) =>
                    \/ res'[p] = StatementFailed
                    \/ /\ res'[p].kind = "ok"
                       /\ res'[p].value.status = req[p].status
                       /\ Stored(req[p].id)' # {}
                       /\ \A o \in Stored(req[p].id)' : o.status = req[p].status]_vars
    /\ [](\A p \in Procs : pc[p] = "status_save" =>
              ENABLED (UpdateStatusSave(p) /\ res'[p].kind = "ok"))

\* C23 witness: an updateStatus has moved a delivered order back to pending.
C23_Witness ==
    \E p \in Procs :
        /\ req[p].op = "updateStatus" /\ Succeeded(p)
        /\ req[p].existingOrder.status = "delivered"
        /\ req[p].status = "pending"
        /\ \E o \in orders : o.id = req[p].id /\ o.status = "pending"

(***************************************************************************)
(* Claims about the product a line item names, checked under OrdersSpec.   *)
(***************************************************************************)
\* Request p is about to insert a line item whose product is not stored.
InsertsUnknownProduct(p) ==
    /\ Creating(p) /\ pc[p] = "tx_items"
    /\ req[p].k <= Len(Submitted(p))
    /\ \A r \in products : r.id # Submitted(p)[req[p].k].productId

Steps(p) == pc'[p] # pc[p] \/ req'[p] # req[p]

RefusedReference ==
    [kind |-> "error",
     error |-> [name |-> "InternalServerErrorException",
                cause |-> [name |-> "QueryFailedError",
                           message |-> "violates foreign key constraint"]]]

\* C24 (as amended): createOrder looks no product up, and the datastore
\* does: the insert of a line item whose product id is not in the catalog
\* is refused, the create fails with InternalError wrapping the
\* foreign-key violation and stores nothing, and every stored line item
\* names a stored product.
C24_UnknownProductRefused ==
    /\ [][\A p \in Procs : (InsertsUnknownProduct(p) /\ Steps(p)) =>
              /\ pc'[p] = "done"
              /\ res'[p] = RefusedReference
              /\ orders' = orders
              /\ orderItems' = orderItems]_vars
    /\ [](\A i \in orderItems : \E r \in products : r.id = i.product)

\* C24 witness: a create whose header was inserted has failed at the insert
\* of its first line item, whose product the empty catalog does not hold.
C24_Witness ==
    \E p \in Procs :
        /\ Creating(p) /\ Failed(p) /\ res[p] = RefusedReference
        /\ WrittenBy(p) # 0 /\ req[p].k = 1 /\ Len(Submitted(p)) = 2
        /\ products = {}
        /\ orders = {} /\ orderItems = {}

\* C24 as stated: the insert of a line item whose product id is not in the
\* catalog goes through, and the line item is written.
C24_UnknownProductStored ==
    [][\A p \in Procs : (InsertsUnknownProduct(p) /\ Steps(p)) =>
          \/ /\ pc'[p] = "tx_items"
             /\ Cardinality(req'[p].txItems) = Cardinality(req[p].txItems) + 1
          \/ res'[p] = StatementFailed]_vars

(***************************************************************************)
(* Claims about the lookups of users, checked under LookupSpec.            *)
(***************************************************************************)
LooksUpById(p) == pc[p] = "idle" /\ req'[p].op = "findOneUser"
LooksUpByEmail(p) == pc[p] = "idle" /\ req'[p].op = "findByEmail"

\* C25: lookup of a user by an id no stored user has fails with NotFound,
\* lookup by an email no stored user has returns null without failing, and
\* neither changes the stored users.
C25_MissingIdThrowsMissingEmailNull ==
    [][\A p \in Procs :
          /\ LooksUpById(p) =>
                /\ users' = users
                /\ (\A u \in users : u.id # req'[p].id) =>
                      /\ pc'[p] = "done"
                      /\ res'[p].kind = "error"
                      /\ res'[p].error.name = "NotFoundException"
          /\ LooksUpByEmail(p) =>
                /\ users' = users
                /\ (\A u \in users : u.email # req'[p].email) =>
                      /\ pc'[p] = "done"
                      /\ res'[p] = [kind |-> "ok", value |-> [id |-> 0]]]_vars

\* C25 witness: while one user is stored, a lookup by another id has failed
\* with NotFound and a lookup by another email has returned null.
C25_Witness ==
    \E p, q \in Procs :
        /\ Cardinality(users) = 1
        /\ req[p].op = "findOneUser" /\ Failed(p)
        /\ res[p].error.name = "NotFoundException"
        /\ \A u \in users : u.id # req[p].id
        /\ req[q].op = "findByEmail" /\ Succeeded(q)
        /\ res[q].value = NoUser
        /\ \A u \in users : u.email # req[q].email

(***************************************************************************)
(* Claims about the role guard on its own, checked under RolesSpec.        *)
(***************************************************************************)
AsksRoleGuard(p) == req[p].op = "canActivate" /\ pc[p] = "done"

\* C26: when a route declares no required roles, or an empty set of them,
\* the role guard lets every request pass, whatever identity is or is not
\* attached; when the set is not empty a request passes only if an identity
\* is attached and its role is a member of the set, and is denied otherwise.
C26_RoleGuardDecision ==
    \A p \in Procs : AsksRoleGuard(p) =>
        LET declared == req[p].requiredRoles.declared
            roles == req[p].requiredRoles.roles
            attached == "role" \in DOMAIN req[p].user
        IN  /\ (~declared \/ roles = {}) => res[p].value = TRUE
            /\ (declared /\ roles # {}) =>
                  res[p].value = (attached /\ req[p].user.role \in roles)

\* C26 witness: a request with no identity has passed a route that declares
\* no roles, and a request with no identity was denied on a route that
\* declares roles.
C26_Witness ==
    \E p, q \in Procs :
        /\ AsksRoleGuard(p) /\ ~req[p].requiredRoles.declared
        /\ req[p].user = NoUser /\ res[p].value = TRUE
        /\ AsksRoleGuard(q) /\ req[q].requiredRoles.roles = {"admin"}
        /\ req[q].user = NoUser /\ res[q].value = FALSE

(***************************************************************************)
(* Claims about orders and their line items, checked under OrderOpsSpec.   *)
(***************************************************************************)
\* The sum of price x quantity over a set of stored line items.
RECURSIVE SigmaStored(_)
SigmaStored(items) ==
    IF items = {} THEN 0
    ELSE LET i == CHOOSE x \in items : TRUE
         IN  i.price * i.quantity + SigmaStored(items \ {i})

ItemsOf(o) == {i \in orderItems : i.order = o.id}

\* C27: in every reachable state, after any sequence of create, update,
\* updateStatus and remove, each stored order's totalAmount equals the sum
\* of price x quantity over the line items stored for that order (to the
\* two decimal places the column keeps).
C27_TotalMatchesStoredItems ==
    \A o \in orders : o.totalAmount = RoundedToCents(SigmaStored(ItemsOf(o)))

\* C28: in every reachable state every stored line item references an
\* order that exists.
C28_ItemsReferenceStoredOrders ==
    \A i \in orderItems : \E o \in orders : o.id = i.order

(***************************************************************************)
(* Claims about a changed password, checked under CredentialSpec.          *)
(***************************************************************************)
WritesPassword(p) ==
    /\ pc[p] = "upd_write" /\ pc'[p] = "upd_read"
    /\ req[p].dto.password # "<absent>"

\* The stored hash is the hash of this password.
IsHashOf(hash, password) ==
    \E salt \in Salts : hash = [salt |-> salt, digest |-> <<salt, password>>]

\* C29: an update that sets a new password stores the hash of the new
\* password, not the raw value; from then on login with the user's email
\* and the password whose hash is stored succeeds, and login with any other
\* password, the previous one included, fails.
C29_NewPasswordReplacesOld ==
    [][\A p \in Procs :
          /\ WritesPassword(p) =>
                \A u \in users' : u.id = req[p].id =>
                    IsHashOf(u.password, req[p].dto.password)
          /\ LogsIn(p) =>
                \A u \in users : u.email = req'[p].email =>
                    IF IsHashOf(u.password, req'[p].password)
                    THEN /\ res'[p].kind = "ok"
                         /\ res'[p].value.token.id = u.id
                    ELSE res'[p].kind = "error"]_vars

\* C29 witness: for a user whose password an update has changed, a login
\* with the new password has succeeded and a login with the password the
\* user registered with has failed.
C29_Witness ==
    \E p, q \in Procs : \E u \in users :
        /\ IsHashOf(u.password, "secret2")
        /\ req[p].op = "login" /\ Succeeded(p)
        /\ req[p].email = u.email /\ req[p].password = "secret2"
        /\ req[q].op = "login" /\ Failed(q)
        /\ req[q].email = u.email /\ req[q].password = "secret1"

(***************************************************************************)
(* Claims about the email of an updated user, checked under UsersSpec.     *)
(***************************************************************************)
Updates(p) == pc[p] = "idle" /\ req'[p].op = "update"
HeldByAnother(email, id) == \E v \in users : v.email = email /\ v.id # id

\* C30: an update that changes the email to one a different user holds
\* fails with Conflict and leaves the stored users unchanged; an update
\* whose email is the user's own current email is not treated as a
\* conflict; and an update on an id no user has fails with NotFound and
\* changes nothing.
C30_UpdateEmailConflict ==
    [][\A p \in Procs :
          /\ Updates(p) =>
                /\ users' = users
                /\ (\A u \in users : u.id # req'[p].id) =>
                      /\ pc'[p] = "done"
                      /\ res'[p].kind = "error"
                      /\ res'[p].error.name = "NotFoundException"
                /\ \A u \in users : u.id = req'[p].id =>
                      /\ u.email = req'[p].dto.email =>
                            (pc'[p] = "upd_write" /\ ~req'[p].emailChanges)
                      /\ (req'[p].dto.email \in Emails \ {u.email}) =>
                            pc'[p] = "upd_check"
          /\ (pc[p] = "upd_check" /\ pc'[p] # "upd_check"
                  /\ HeldByAnother(req[p].dto.email, req[p].id)) =>
                /\ pc'[p] = "done"
                /\ res'[p].kind = "error"
                /\ res'[p].error.name = "ConflictException"
                /\ users' = users
          /\ (pc[p] \in {"upd_write", "upd_read"} /\ pc'[p] = "done"
                  /\ res'[p].kind = "error") =>
                res'[p].error.name # "ConflictException"]_vars

\* C30 witness: of two stored users, one has asked for the email of the
\* other and was refused with Conflict, and one has been updated with the
\* email it already had.
C30_Witness ==
    \E p, q \in Procs :
        /\ Cardinality(users) = 2
        /\ req[p].op = "update" /\ Failed(p)
        /\ res[p].error.name = "ConflictException"
        /\ HeldByAnother(req[p].dto.email, req[p].id)
        /\ \E u \in users : u.id = req[p].id
        /\ req[q].op = "update" /\ Succeeded(q)
        /\ req[q].dto.email \in Emails /\ ~req[q].emailChanges
        /\ res[q].value.email = req[q].dto.email

====
